---- MODULE Spec2Model ----
(***************************************************************************)
(* A model of myhdl/_simulator.py: the per-thread store of simulation      *)
(* contexts (_SimContextManager), its property accessors, now() and the    *)
(* scoped switch simulation_context().                                     *)
(*                                                                         *)
(* Python objects that are mutable and can be aliased (the lists and the   *)
(* dict held in a context) live in `heap` and a context holds their        *)
(* addresses, so that copy.copy() is an allocation and not the identity.   *)
(* The Signal class is not part of _simulator.py: a signal is modelled by  *)
(* its visible value (sigval) and by _stash_state/_recall_state as the     *)
(* specification describes them.                                           *)
(***************************************************************************)
EXTENDS Integers, Sequences, FiniteSets, TLC

\* ------------------------------------------------------------- bounds
\* Accessor writes and signal writes explored in one behaviour.
MaxWrites == 1
\* Open `with simulation_context(...)` blocks of one thread.
MaxDepth == 2
\* Simulation times written through the _time setter are 0..MaxTime.
MaxTime == 1
\* Signal methods (_stash_state, _recall_state) that raise during one call.
MaxFaults == 1

\* ---------------------------------------------------------- constants
None == "None"
OK == "ok"
File == "file"
Threads == {"main", "worker"}
\* The thread that imports the module and so runs __init__ (line 179).
ImportThread == "main"
\* Identity tokens that can be weakly referenced (instances of a class).
Tokens == {"a", "b"}
\* An identity that cannot be weakly referenced (a str, an int).
Str == "str"
Ids == Tokens \cup {Str, None}
Signals == {"s1", "s2"}
\* A signal's visible value: one bit.
Values == {0, 1}
Times == 0..MaxTime
Flags == {0, 1}
ListFields == {"signals", "siglist", "futureEvents"}
ContainerFields == ListFields \cup {"signal_state"}
ScalarFields == {"time", "cosim", "tracing", "tf"}

VARIABLES
  data,     \* self._data: each thread's attribute namespace (threading.local)
  heap,     \* the list and dict objects the contexts refer to, by address
  sigval,   \* each Signal object's visible value (shared by all threads)
  live,     \* the tokens something outside the manager still references
  stack,    \* each thread's open simulation_context generators, innermost last
  call,     \* the last call made (or entry reclaimed) and what was observed
  writes    \* number of writes made since import (bounded by MaxWrites)

vars == <<data, heap, sigval, live, stack, call, writes>>

\* ------------------------------------------------------------ helpers
EmptyDict == [x \in {} |-> 0]

DictPut(d, k, v) == [x \in (DOMAIN d) \cup {k} |-> IF x = k THEN v ELSE d[x]]

Restrict(f, S) == [x \in (DOMAIN f) \cap S |-> f[x]]

Range(seq) == {seq[i] : i \in 1..Len(seq)}

\* The address of the container object created for field f of the context
\* that thread t keeps under key `owner` (None: the default context).
Addr(t, owner, f) == <<t, owner, f>>

\* weakref.ref(k) succeeds.
WeakRefable(k) == k \in Tokens

\* copy.copy succeeds on the value v of field f: every value a field holds can
\* be copied but an open file object, which only tf holds.
Copyable(f, v) == f # "tf" \/ v # File

\* __init__, lines 45-52: the default context of the constructing thread.
DefaultContext(t) ==
  [signals      |-> Addr(t, None, "signals"),
   siglist      |-> Addr(t, None, "siglist"),
   futureEvents |-> Addr(t, None, "futureEvents"),
   time         |-> 0,
   cosim        |-> 0,
   tracing      |-> 0,
   tf           |-> None,
   signal_state |-> Addr(t, None, "signal_state")]

\* __init__, lines 44-56: the attributes are set on the threading.local object
\* in the constructing thread only; any other thread sees none of them.
InitData(t) ==
  IF t = ImportThread
    THEN [default_context |-> DefaultContext(t),
          context_dict    |-> EmptyDict,
          current_context |-> None]
    ELSE EmptyDict

InitHeap ==
  [a \in {Addr(ImportThread, None, f) : f \in ContainerFields} |->
     IF a[3] = "signal_state" THEN EmptyDict ELSE <<>>]

HasAttrs(ns) == DOMAIN ns # {}

\* _get_context, lines 74-82: the error it raises, or OK.
GetContextErr(ns) ==
  IF ~HasAttrs(ns) THEN "AttributeError"
  ELSE IF ns.current_context = None THEN OK
  ELSE IF ~WeakRefable(ns.current_context) THEN "TypeError"
  ELSE IF ns.current_context \notin DOMAIN ns.context_dict THEN "KeyError"
  ELSE OK

\* (mutant) _get_context keeps returning the default context.
GetContext_Stale(ns) == ns.default_context

\* _get_context, lines 74-82: the context selected by the current identity.
GetContext(ns) ==
  IF ns.current_context = None
    THEN ns.default_context
    ELSE ns.context_dict[ns.current_context]

\* A property setter, e.g. lines 120-122: item assignment on the dict object
\* that _get_context returned.
PutContext(ns, w) ==
  IF ns.current_context = None
    THEN [ns EXCEPT !.default_context = w]
    ELSE [ns EXCEPT !.context_dict[ns.current_context] = w]

\* A machine state threaded through the steps of one call:
\* the calling thread's namespace, the heap, the signal values, the error.
Machine(t) == [ns |-> data[t], heap |-> heap, sv |-> sigval, err |-> OK]

\* ------------------------------------------------- the Signal collaborator
\* Signal._stash_state: the signal writes its visible value into the current
\* context's signal_state, keyed by itself.
Stash(m, s) ==
  LET a == GetContext(m.ns).signal_state
  IN [m EXCEPT !.heap[a] = DictPut(m.heap[a], s, m.sv[s])]

\* Signal._recall_state: the signal adopts the value kept for it in the current
\* context's signal_state; with no entry it keeps the value it has.
Recall(m, s) ==
  LET d == m.heap[GetContext(m.ns).signal_state]
  IN IF s \in DOMAIN d THEN [m EXCEPT !.sv[s] = d[s]] ELSE m

RECURSIVE StashN(_, _, _)
\* The first n iterations of `for signal in self._signals: signal._stash_state()`.
StashN(m, sigs, n) ==
  IF n = 0 THEN m ELSE Stash(StashN(m, sigs, n - 1), sigs[n])

RECURSIVE RecallN(_, _, _)
\* The first n iterations of `for signal in self._signals: signal._recall_state()`.
RecallN(m, sigs, n) ==
  IF n = 0 THEN m ELSE Recall(RecallN(m, sigs, n - 1), sigs[n])

\* The list `self._signals` evaluates to (lines 84-86), when _get_context succeeds.
CurSignals(m) == m.heap[GetContext(m.ns).signals]

\* How many iterations a loop over self._signals can make before it ends:
\* all of them, or none when the method of its first signal raises.
LoopCuts(m) ==
  IF GetContextErr(m.ns) = OK THEN {0, Len(CurSignals(m))} ELSE {0}

\* Lines 161-162 and 171-172: evaluate self._signals, then stash each signal;
\* the signal after the k-th raises when k is less than the length.
StashLoop(m, k) ==
  IF GetContextErr(m.ns) # OK THEN [m EXCEPT !.err = GetContextErr(m.ns)]
  ELSE LET sigs == CurSignals(m)
           done == StashN(m, sigs, k)
       IN IF k < Len(sigs) THEN [done EXCEPT !.err = "StashError"] ELSE done

\* Lines 166-167 and 176-177: evaluate self._signals, then recall each signal.
RecallLoop(m, k) ==
  IF GetContextErr(m.ns) # OK THEN [m EXCEPT !.err = GetContextErr(m.ns)]
  ELSE LET sigs == CurSignals(m)
           done == RecallN(m, sigs, k)
       IN IF k < Len(sigs) THEN [done EXCEPT !.err = "RecallError"] ELSE done

\* ------------------------------------------------------ _set_context_id
\* (mutant) line 69 without copy.copy: the new context shares the objects of
\* the default context.
CopyField_Alias(m, t, id, f) == m.ns.default_context[f]

\* (mutant) lines 65-70 building the new context from the values __init__
\* gives a context, not from what the default context holds now.
CopyField_Blank(m, t, id, f) ==
  IF f \in ContainerFields THEN Addr(t, id, f) ELSE DefaultContext(t)[f]

\* Line 69: copy.copy of one field of the default context. A list or dict is
\* copied into a new object, at the address of the new context's own field;
\* any other value is returned as it is.
CopyField(m, t, id, f) ==
  LET v == m.ns.default_context[f]
  IN IF f \in ContainerFields THEN Addr(t, id, f) ELSE v

\* Lines 65-70: the heap after the copies: each new object holds what the
\* object it was copied from holds.
CopyHeap(m, t, id) ==
  LET made == {f \in ContainerFields :
                  CopyField(m, t, id, f) \notin DOMAIN m.heap}
      new  == {CopyField(m, t, id, f) : f \in made}
  IN [a \in (DOMAIN m.heap) \cup new |->
        IF a \in new THEN m.heap[m.ns.default_context[a[3]]] ELSE m.heap[a]]

\* Lines 65-70: new_context.
NewContext(m, t, id) ==
  [f \in DOMAIN m.ns.default_context |-> CopyField(m, t, id, f)]

\* (mutant) line 62 without the membership test: every activation of an
\* identity builds its context anew.
NeedsContext_Always(ns, id) == id # None

\* Line 62: the condition under which a context is created.
NeedsContext(ns, id) ==
  /\ id # None
  /\ ~(WeakRefable(id) /\ id \in DOMAIN ns.context_dict)

\* (mutant) lines 58-72 without the test of line 63 and with a table that
\* takes any key: the sentinel gets an entry like any other identity.
SetContextId_KeysSentinel(m, t, id) ==
  LET m1 == [m EXCEPT !.ns.current_context = id]
  IN IF id \in DOMAIN m.ns.context_dict THEN m1
     ELSE [m1 EXCEPT !.ns.context_dict = DictPut(@, id, NewContext(m, t, id)),
                     !.heap = CopyHeap(m, t, id)]

\* _set_context_id, lines 58-72.
SetContextId(m, t, id) ==
  LET m1 == [m EXCEPT !.ns.current_context = id]
  IN IF ~NeedsContext(m.ns, id) THEN m1
     ELSE IF \E f \in DOMAIN m.ns.default_context :
                ~Copyable(f, m.ns.default_context[f])
       THEN [m1 EXCEPT !.err = "TypeError"]
     ELSE IF ~WeakRefable(id) THEN [m1 EXCEPT !.err = "TypeError"]
     ELSE [m1 EXCEPT !.ns.context_dict = DictPut(@, id, NewContext(m, t, id)),
                     !.heap = CopyHeap(m, t, id)]

\* ---------------------------------------------------- simulation_context
\* (mutant) lines 155-158 left out: no call is refused.
Nested_Unchecked(ns, id) == FALSE

\* Lines 155-158: the call is refused.
Nested(ns, id) == id # None /\ ns.current_context # None

\* (mutant) lines 161-164 with the switch made before the stash loop.
TryBlock_SwitchFirst(m, t, id, k1) ==
  LET m1 == SetContextId(m, t, id)
  IN IF m1.err # OK THEN m1 ELSE StashLoop(m1, k1)

\* (mutant) lines 160-164 without the stash loop of lines 161-162.
TryBlock_NoStash(m, t, id, k1) == SetContextId(m, t, id)

\* Lines 160-164: the try block up to the switch; k1 says how far the stash
\* loop gets.
TryBlock(m, t, id, k1) ==
  LET m1 == StashLoop(m, k1)
  IN IF m1.err # OK THEN m1 ELSE SetContextId(m1, t, id)

\* Lines 166-167, after _set_context_id succeeded.
TryRecall(m, k2) == IF m.err # OK THEN m ELSE RecallLoop(m, k2)

\* (mutant) lines 170-174: a finally block that does not recall the signals
\* of the default context.
FinallyBlock_NoRecall(m, t, k3, k4) ==
  LET m0 == [m EXCEPT !.err = OK]
      f1 == StashLoop(m0, k3)
      f2 == IF f1.err # OK THEN f1 ELSE SetContextId(f1, t, None)
  IN IF f2.err # OK THEN f2 ELSE [f2 EXCEPT !.err = m.err]

\* Lines 170-177: the finally block; k3 and k4 say how far its loops get.
\* An error raised in it replaces the one that was propagating.
FinallyBlock(m, t, k3, k4) ==
  LET m0 == [m EXCEPT !.err = OK]
      f1 == StashLoop(m0, k3)
      f2 == IF f1.err # OK THEN f1 ELSE SetContextId(f1, t, None)
      f3 == IF f2.err # OK THEN f2 ELSE RecallLoop(f2, k4)
  IN IF f3.err # OK THEN f3 ELSE [f3 EXCEPT !.err = m.err]

\* (mutant) lines 169-177 with the body's error caught: the exit sequence runs
\* and the call returns normally.
AfterBody_Swallow(m, t, raised, k3, k4) ==
  FinallyBlock([m EXCEPT !.err = OK], t, k3, k4)

\* (mutant) lines 169-177 without try/finally: the exit sequence is skipped
\* when the body raises.
AfterBody_NoFinally(m, t, raised, k3, k4) ==
  IF raised THEN [m EXCEPT !.err = "BodyError"]
  ELSE FinallyBlock(m, t, k3, k4)

\* Lines 169-177: what happens when the body of the with statement ends,
\* normally or by raising: the generator resumes at the yield and the
\* finally block runs.
AfterBody(m, t, raised, k3, k4) ==
  FinallyBlock([m EXCEPT !.err = IF raised THEN "BodyError" ELSE OK], t, k3, k4)

\* Whether a loop that made k iterations was cut short by a signal that raised.
Fault(m, k) ==
  IF GetContextErr(m.ns) = OK /\ k < Len(CurSignals(m)) THEN 1 ELSE 0

\* The loop cuts open to the second loop of the try block.
TryCuts(m, t, id, k1) ==
  LET m2 == TryBlock(m, t, id, k1)
  IN IF m2.err # OK THEN {0} ELSE LoopCuts(m2)

\* The loop cuts open to the second loop of the finally block.
FinallyCuts(m, t, k3) ==
  LET f1 == StashLoop([m EXCEPT !.err = OK], k3)
  IN IF f1.err # OK THEN {0} ELSE LoopCuts(SetContextId(f1, t, None))

\* The signal methods that raised in the try block.
TryFaults(m, t, id, k1, k2) ==
  LET m2 == TryBlock(m, t, id, k1)
  IN Fault(m, k1) + (IF m2.err # OK THEN 0 ELSE Fault(m2, k2))

\* The signal methods that raised in the finally block.
FinallyFaults(m, t, k3, k4) ==
  LET f1 == StashLoop([m EXCEPT !.err = OK], k3)
  IN Fault(m, k3)
       + (IF f1.err # OK THEN 0 ELSE Fault(SetContextId(f1, t, None), k4))

\* ------------------------------------------------ lifetime of contexts
\* The identities the manager and the running generators refer to strongly:
\* self._data.current_context (line 60) and each generator's context_id.
Held(ns, stk) ==
  (IF HasAttrs(ns) THEN {ns.current_context} ELSE {})
    \cup {stk[i].id : i \in 1..Len(stk)}

\* (mutant) line 54 with a plain dict: no entry is ever removed.
Collect_Strong(ns, stk, lv) == ns

\* Line 54: context_dict is a WeakKeyDictionary; an entry goes when nothing
\* refers to its key any more.
Collect(ns, stk, lv) ==
  IF HasAttrs(ns)
    THEN [ns EXCEPT !.context_dict = Restrict(@, lv \cup Held(ns, stk))]
    ELSE ns

\* The container objects some context still refers to.
Reachable(d) ==
  UNION {IF HasAttrs(d[t])
           THEN {d[t].default_context[f] : f \in ContainerFields}
                \cup {d[t].context_dict[k][f] :
                        k \in DOMAIN d[t].context_dict, f \in ContainerFields}
           ELSE {} : t \in Threads}

\* Objects no context refers to are freed.
Sweep(d, h) == Restrict(h, Reachable(d))

\* ------------------------------------------------------------ history
\* Every open scope of the thread has had simulation_context called in its body.
MarkInner(stk) == [i \in 1..Len(stk) |-> [stk[i] EXCEPT !.inner = TRUE]]

\* The frame of a generator that reached its yield: the identity it was called
\* with and, as history, the values that the signals of the default context
\* had at the call, and whether the body called simulation_context itself.
Frame(t, id) ==
  [id    |-> id,
   pre   |-> IF HasAttrs(data[t]) /\ data[t].current_context = None /\ id # None
               THEN [s \in Signals |->
                       IF s \in Range(heap[data[t].default_context.signals])
                         THEN sigval[s] ELSE 0]
               ELSE [s \in Signals |-> 0],
   inner |-> FALSE]

\* What the caller of the last call observed: the error raised (or OK) and
\* the value returned.
Result(t, op, err, ret) == [thread |-> t, op |-> op, err |-> err, ret |-> ret]

Commit(t, m, stk) ==
  /\ data' = [data EXCEPT ![t] = Collect(m.ns, stk, live)]
  /\ heap' = Sweep(data', m.heap)
  /\ sigval' = m.sv
  /\ stack' = [stack EXCEPT ![t] = stk]

\* ------------------------------------------------------------ actions
\* The module has been imported (line 179) and the importing thread has
\* appended signal s1 to _signals; signal s2 exists and is in no list yet.
Init ==
  /\ data = [t \in Threads |-> InitData(t)]
  /\ heap = [InitHeap EXCEPT ![Addr(ImportThread, None, "signals")] = <<"s1">>]
  /\ sigval = [s \in Signals |-> 0]
  /\ live = Tokens
  /\ stack = [t \in Threads |-> <<>>]
  /\ call = Result(ImportThread, "init", OK, None)
  /\ writes = 0

CanCall(t, id) ==
  /\ Len(stack[t]) < MaxDepth
  /\ id \in live \cup {None, Str}

\* simulation_context(id) raises before its try block: lines 155-158, or the
\* attribute lookups of a thread whose namespace is empty.
EnterError(ns, id) ==
  IF ~HasAttrs(ns) THEN "AttributeError"
  ELSE IF Nested(ns, id) THEN "ValueError"
  ELSE OK

EnterRefused(t, id) ==
  /\ CanCall(t, id)
  /\ EnterError(data[t], id) # OK
  /\ call' = Result(t, "simulation_context", EnterError(data[t], id), None)
  /\ UNCHANGED <<data, heap, sigval, live, stack, writes>>

\* simulation_context(id) runs lines 160-167 and reaches the yield: the body
\* of the with statement starts.
EnterYields(t, id) ==
  /\ CanCall(t, id)
  /\ EnterError(data[t], id) = OK
  /\ \E k1 \in LoopCuts(Machine(t)) :
     \E k2 \in TryCuts(Machine(t), t, id, k1) :
       LET m3 == TryRecall(TryBlock(Machine(t), t, id, k1), k2)
       IN /\ m3.err = OK
          /\ Commit(t, m3, Append(MarkInner(stack[t]), Frame(t, id)))
          /\ call' = Result(t, "simulation_context", OK, None)
  /\ UNCHANGED <<live, writes>>

\* simulation_context(id) raises inside lines 160-167: the finally block runs
\* and the error reaches the caller; the body never starts.
EnterFails(t, id) ==
  /\ CanCall(t, id)
  /\ EnterError(data[t], id) = OK
  /\ \E k1 \in LoopCuts(Machine(t)) :
     \E k2 \in TryCuts(Machine(t), t, id, k1) :
       LET m3 == TryRecall(TryBlock(Machine(t), t, id, k1), k2)
       IN /\ m3.err # OK
          /\ \E k3 \in LoopCuts(m3) :
             \E k4 \in FinallyCuts(m3, t, k3) :
               LET fin == FinallyBlock(m3, t, k3, k4)
               IN /\ TryFaults(Machine(t), t, id, k1, k2)
                       + FinallyFaults(m3, t, k3, k4) <= MaxFaults
                  /\ Commit(t, fin, MarkInner(stack[t]))
                  /\ call' = Result(t, "simulation_context", fin.err, None)
  /\ UNCHANGED <<live, writes>>

Top(t) == stack[t][Len(stack[t])]

\* The scope of the innermost open generator ran with no switch made under
\* it: its body did not call simulation_context.
Undisturbed(t) ==
  /\ ~Top(t).inner
  /\ data[t].current_context = Top(t).id

\* The body of the innermost with statement of thread t ends, normally or by
\* raising: lines 169-177.
Exit(t, raised) ==
  /\ stack[t] # <<>>
  /\ LET stk == SubSeq(stack[t], 1, Len(stack[t]) - 1)
     IN \E k3 \in LoopCuts(Machine(t)) :
        \E k4 \in FinallyCuts(Machine(t), t, k3) :
          LET fin == AfterBody(Machine(t), t, raised, k3, k4)
          IN /\ FinallyFaults(Machine(t), t, k3, k4) <= MaxFaults
             /\ Commit(t, fin, stk)
             /\ call' = Result(t, "exit", fin.err, None)
  /\ UNCHANGED <<live, writes>>

\* now(), lines 148-150.
Now(t) ==
  /\ call' = IF GetContextErr(data[t]) # OK
               THEN Result(t, "now", GetContextErr(data[t]), None)
               ELSE Result(t, "now", OK, GetContext(data[t]).time)
  /\ UNCHANGED <<data, heap, sigval, live, stack, writes>>

FieldValues(f) ==
  CASE f = "time" -> Times
    [] f = "tf"   -> {None, File}
    [] OTHER      -> Flags

\* What a client appends to each list.
Elements(f) == IF f = "signals" THEN Signals ELSE {"s1"}

\* The setters of _time, _cosim, _tracing and _tf: lines 120-146.
SetField(t, f, v) ==
  /\ IF GetContextErr(data[t]) # OK
       THEN /\ call' = Result(t, "access", GetContextErr(data[t]), None)
            /\ UNCHANGED <<data, writes>>
       ELSE /\ GetContext(data[t])[f] # v
            /\ writes < MaxWrites
            /\ writes' = writes + 1
            /\ data' = [data EXCEPT ![t] =
                          PutContext(@, [GetContext(@) EXCEPT ![f] = v])]
            /\ UNCHANGED call
  /\ UNCHANGED <<heap, sigval, live, stack>>

\* The setters of _signals, _siglist, _futureEvents and _signal_state, lines
\* 88-114, given a new empty list or dict.
AssignField(t, f) ==
  /\ IF GetContextErr(data[t]) # OK
       THEN /\ call' = Result(t, "access", GetContextErr(data[t]), None)
            /\ UNCHANGED <<data, heap, writes>>
       ELSE LET a == Addr(t, data[t].current_context, f)
            IN /\ IF GetContext(data[t])[f] = a THEN DOMAIN heap[a] # {} ELSE TRUE
               /\ writes < MaxWrites
               /\ writes' = writes + 1
               /\ UNCHANGED call
               /\ data' = [data EXCEPT ![t] =
                             PutContext(@, [GetContext(@) EXCEPT ![f] = a])]
               /\ heap' = Sweep(data', DictPut(heap, a,
                            IF f = "signal_state" THEN EmptyDict ELSE <<>>))
  /\ UNCHANGED <<sigval, live, stack>>

\* The getters of _signals, _siglist and _futureEvents, lines 84-110, and an
\* append to the list they return.
AppendTo(t, f, x) ==
  /\ IF GetContextErr(data[t]) # OK
       THEN /\ call' = Result(t, "access", GetContextErr(data[t]), None)
            /\ UNCHANGED <<heap, writes>>
       ELSE /\ writes < MaxWrites
            /\ writes' = writes + 1
            /\ heap' = [heap EXCEPT ![GetContext(data[t])[f]] = Append(@, x)]
            /\ UNCHANGED call
  /\ UNCHANGED <<data, sigval, live, stack>>

\* The same getters, and the removal of the first element of the list.
PopFrom(t, f) ==
  /\ GetContextErr(data[t]) = OK
  /\ heap[GetContext(data[t])[f]] # <<>>
  /\ writes < MaxWrites
  /\ writes' = writes + 1
  /\ UNCHANGED call
  /\ heap' = [heap EXCEPT ![GetContext(data[t])[f]] = Tail(@)]
  /\ UNCHANGED <<data, sigval, live, stack>>

\* A signal's visible value changes (an assignment made by running code).
WriteSignal(s, v) ==
  /\ writes < MaxWrites
  /\ writes' = writes + 1
  /\ v # sigval[s]
  /\ sigval' = [sigval EXCEPT ![s] = v]
  /\ UNCHANGED <<data, heap, live, stack, call>>

\* The keys of the table of namespace ns that namespace ns2 no longer has.
Removed(ns, ns2) ==
  IF HasAttrs(ns) THEN DOMAIN ns.context_dict \ DOMAIN ns2.context_dict ELSE {}

\* The last reference to token k that a client holds goes away. When that
\* removes an entry from the table of a thread, the removal is what was last
\* observed (a weakref callback on the key sees it).
Drop(k) ==
  /\ k \in live
  /\ live' = live \ {k}
  /\ data' = [t \in Threads |-> Collect(data[t], stack[t], live')]
  /\ heap' = Sweep(data', heap)
  /\ call' = IF \E t \in Threads : k \in Removed(data[t], data'[t])
               THEN Result(CHOOSE t \in Threads : k \in Removed(data[t], data'[t]),
                           "reclaim", OK, k)
               ELSE call
  /\ UNCHANGED <<sigval, stack, writes>>

\* A new identity token is created; it is a new object, so nothing holds it.
NewToken(k) ==
  /\ k \in Tokens \ live
  /\ \A t \in Threads : k \notin Held(data[t], stack[t])
  /\ live' = live \cup {k}
  /\ UNCHANGED <<data, heap, sigval, stack, call, writes>>

Next ==
  \/ \E t \in Threads, id \in Ids : EnterRefused(t, id)
  \/ \E t \in Threads, id \in Ids : EnterYields(t, id)
  \/ \E t \in Threads, id \in Ids : EnterFails(t, id)
  \/ \E t \in Threads, raised \in BOOLEAN : Exit(t, raised)
  \/ \E t \in Threads : Now(t)
  \/ \E t \in Threads, f \in ScalarFields : \E v \in FieldValues(f) : SetField(t, f, v)
  \/ \E t \in Threads, f \in ContainerFields : AssignField(t, f)
  \/ \E t \in Threads, f \in ListFields : \E x \in Elements(f) : AppendTo(t, f, x)
  \/ \E t \in Threads, f \in ListFields : PopFrom(t, f)
  \/ \E s \in Signals, v \in Values : WriteSignal(s, v)
  \/ \E k \in Tokens : Drop(k)
  \/ \E k \in Tokens : NewToken(k)

Spec == Init /\ [][Next]_vars

\* ============================================================ claims
\* Thread t calls simulation_context(id).
Call(t, id) == EnterRefused(t, id) \/ EnterYields(t, id) \/ EnterFails(t, id)

Cur(t) == data[t].current_context

\* What context w holds, its lists and dict read through.
Deep(h, w) ==
  [f \in DOMAIN w |-> IF f \in ContainerFields THEN h[w[f]] ELSE w[f]]

\* The contents of the context thread t keeps under identity k.
Held_World(d, h, t, k) ==
  Deep(h, IF k = None THEN d[t].default_context ELSE d[t].context_dict[k])

\* The step ends the body of the innermost open scope of thread t: only Exit
\* removes a frame. call'.err then tells how the scope ended: OK (the body
\* ended normally and so did the exit sequence), "BodyError" (the body raised
\* and the exit sequence completed) or the error the exit sequence raised.
Ends(t) == Len(stack'[t]) < Len(stack[t])

\* The step is a call of simulation_context by thread t that reaches the yield.
Yields(t) == Len(stack'[t]) > Len(stack[t])

\* The context thread t keeps under identity k holds value v for signal s.
Parks(t, k, s, v) ==
  /\ HasAttrs(data[t])
  /\ k = None \/ k \in DOMAIN data[t].context_dict
  /\ s \in DOMAIN Held_World(data, heap, t, k).signal_state
  /\ Held_World(data, heap, t, k).signal_state[s] = v

DefaultSignals(t) == Range(heap[data[t].default_context.signals])

\* C1: round-trip identity. When the body of simulation_context(token), entered
\* from the default context, ends normally and the exit sequence completes,
\* every signal of the default context has the value it had just before the
\* call, whatever the body wrote to signals, time or the lists of the context
\* it ran in.
C1_RoundTrip ==
  [][\A t \in Threads :
       (/\ Ends(t)
        /\ call'.err = OK
        /\ Top(t).id # None
        /\ Undisturbed(t))
       => \A s \in DefaultSignals(t) : sigval'[s] = Top(t).pre[s]]_vars

\* C1 witness: a scope of token a has ended normally, its body changed s1 (a's
\* context parked 1) and s1 is back at the value the default context parked.
C1_Witness ==
  /\ call = Result(ImportThread, "exit", OK, None)
  /\ stack[ImportThread] = <<>>
  /\ Cur(ImportThread) = None
  /\ "a" \in DOMAIN data[ImportThread].context_dict
  /\ Parks(ImportThread, "a", "s1", 1)
  /\ Parks(ImportThread, None, "s1", 0)
  /\ sigval["s1"] = 0

\* C2: guaranteed cleanup. When the body of simulation_context(token) raises,
\* the exit sequence still runs: the signals of the context the body ran in are
\* stashed in it, the current identity is the sentinel again and every signal
\* of the default context has its value from before the call.
C2_CleanupOnRaise ==
  [][\A t \in Threads :
       (/\ Ends(t)
        /\ call'.err = "BodyError"
        /\ Top(t).id # None
        /\ Undisturbed(t))
       => /\ Cur(t)' = None
          /\ \A s \in DefaultSignals(t) : sigval'[s] = Top(t).pre[s]
          /\ Top(t).id \in DOMAIN data'[t].context_dict =>
               \A s \in Range(CurSignals(Machine(t))) :
                 Held_World(data', heap', t, Top(t).id).signal_state[s] = sigval[s]]_vars

\* C2 witness: the body of a scope of token a raised after changing s1; the
\* thread is back in the default context and s1 has its old value.
C2_Witness ==
  /\ call = Result(ImportThread, "exit", "BodyError", None)
  /\ stack[ImportThread] = <<>>
  /\ Cur(ImportThread) = None
  /\ "a" \in DOMAIN data[ImportThread].context_dict
  /\ Parks(ImportThread, "a", "s1", 1)
  /\ sigval["s1"] = 0

\* C3: nesting rejection. A call of simulation_context with a token made while
\* the current identity is not the sentinel raises ValueError and changes
\* nothing: not the thread's attributes (current identity, contexts, table),
\* not a list or dict of any context, not a signal value, and no scope opens.
C3_NestingRejected ==
  [][\A t \in Threads, id \in Ids \ {None} :
       (/\ HasAttrs(data[t])
        /\ Cur(t) # None
        /\ Call(t, id))
       => /\ call'.err = "ValueError"
          /\ UNCHANGED <<data, heap, sigval, stack, live>>]_vars

\* C3 witness: inside a scope of token a, a call with a token was refused.
C3_Witness ==
  /\ call = Result(ImportThread, "simulation_context", "ValueError", None)
  /\ Cur(ImportThread) = "a"
  /\ Len(stack[ImportThread]) = 1

\* C4 (as claimed): when a signal's stash or recall raises during the exit
\* sequence, the current identity is the sentinel when the error reaches the
\* caller.
C4_ExitFailureResetsIdentity ==
  [][\A t \in Threads :
       (Ends(t) /\ call'.err \in {"StashError", "RecallError"})
       => Cur(t)' = None]_vars

\* C5: parked persistence. While token k stays in the table of thread t:
\* (exit) when a scope ends with k current, k's context keeps its time and its
\* signal list and parks the value each of its signals has at that moment;
\* (parked) a step that neither starts nor ends with k current leaves k's
\* context as it is, whatever is done in the default context or under another
\* token, unless the step is a call with k whose recall raised, which runs the
\* exit sequence on k; (re-entry) a call with k that reaches its body leaves
\* k's context as it is, gives each of its signals the parked value, and time
\* reads as k's time.
C5_ParkedPersistence ==
  [][\A t \in Threads, k \in Tokens :
       (/\ HasAttrs(data[t])
        /\ k \in DOMAIN data[t].context_dict
        /\ k \in DOMAIN data'[t].context_dict)
       => LET A  == Held_World(data, heap, t, k)
              A2 == Held_World(data', heap', t, k)
          IN /\ (Ends(t) /\ Cur(t) = k /\ call'.err \in {OK, "BodyError"})
                  => /\ A2.time = A.time
                     /\ A2.signals = A.signals
                     /\ \A s \in Range(A.signals) :
                          /\ s \in DOMAIN A2.signal_state
                          /\ A2.signal_state[s] = sigval[s]
             /\ (Cur(t) # k /\ Cur(t)' # k /\ A2 # A) => EnterFails(t, k)
             /\ (Yields(t) /\ Cur(t) # k /\ Cur(t)' = k)
                  => /\ A2 = A
                     /\ GetContext(data'[t]).time = A.time
                     /\ \A s \in Range(A.signals) :
                          /\ s \in DOMAIN A.signal_state
                          /\ sigval'[s] = A.signal_state[s]]_vars

\* C5 witness: token a was entered again after a scope of token b; s1 reads
\* the 1 that a's context parked, not the 0 parked by the default context.
C5_Witness ==
  /\ call = Result(ImportThread, "simulation_context", OK, None)
  /\ Cur(ImportThread) = "a"
  /\ "b" \in DOMAIN data[ImportThread].context_dict
  /\ Parks(ImportThread, "a", "s1", 1)
  /\ Parks(ImportThread, None, "s1", 0)
  /\ sigval["s1"] = 1

\* C6: first-activation fall-back. When a call made from the default context
\* with a token that has no entry reaches its body, the new context has the
\* signal list of the default context and, for each signal in it, an entry in
\* its signal_state holding the value the signal had just before the call; the
\* signal still has that value.
C6_FirstActivation ==
  [][\A t \in Threads, k \in Tokens :
       (/\ Yields(t)
        /\ HasAttrs(data[t])
        /\ Cur(t) = None
        /\ Cur(t)' = k
        /\ k \notin DOMAIN data[t].context_dict)
       => LET W == Held_World(data', heap', t, k)
          IN /\ W.signals = heap[data[t].default_context.signals]
             /\ \A s \in Range(W.signals) :
                  /\ s \in DOMAIN W.signal_state
                  /\ W.signal_state[s] = sigval[s]
                  /\ sigval'[s] = sigval[s]]_vars

\* C6 witness: s1 was 1 in the default context when token a was entered for
\* the first time; a's context holds 1 for it and s1 reads 1.
C6_Witness ==
  /\ call = Result(ImportThread, "simulation_context", OK, None)
  /\ Cur(ImportThread) = "a"
  /\ Parks(ImportThread, "a", "s1", 1)
  /\ Parks(ImportThread, None, "s1", 1)
  /\ sigval["s1"] = 1

\* C7: world independence. A write made through an accessor (a scalar set, a
\* list or dict assigned, an element appended or removed) changes nothing in
\* any context other than the writer's current one: the default context and
\* every context in every table keep the contents of each field.
C7_WorldIndependence ==
  [][(writes' # writes /\ sigval' = sigval)
       => \A t \in Threads :
            HasAttrs(data[t])
            => \A k \in ({None} \cup DOMAIN data[t].context_dict) \ {Cur(t)} :
                 /\ k = None \/ k \in DOMAIN data'[t].context_dict
                 /\ Held_World(data', heap', t, k)
                      = Held_World(data, heap, t, k)]_vars

\* C7 witness: s2 was appended to _signals inside the first scope of token a;
\* the default context's list still holds s1 only.
C7_Witness ==
  /\ Cur(ImportThread) = "a"
  /\ "a" \in DOMAIN data[ImportThread].context_dict
  /\ Held_World(data, heap, ImportThread, "a").signals = <<"s1", "s2">>
  /\ Held_World(data, heap, ImportThread, None).signals = <<"s1">>

\* C8: no stale reads. Whenever now() returns, it returns the time held by the
\* context that the current identity selects in the state of the call: the
\* default context under the sentinel, else the table's entry for the token.
C8_NoStaleReads ==
  [][\A t \in Threads :
       (Now(t) /\ call'.err = OK)
       => call'.ret = IF Cur(t) = None
                        THEN data[t].default_context.time
                        ELSE data[t].context_dict[Cur(t)].time]_vars

\* C8 witness: right after the switch out of a scope of token a, whose time
\* is 1, now() returned the default context's 0.
C8_Witness ==
  /\ call = Result(ImportThread, "now", OK, 0)
  /\ Cur(ImportThread) = None
  /\ "a" \in DOMAIN data[ImportThread].context_dict
  /\ data[ImportThread].context_dict["a"].time = 1

\* C9 (as claimed): every thread has its own default context from its first
\* use on, so no call of any thread fails for want of the attributes that
\* __init__ sets.
C9_PerThreadDefault == call.err # "AttributeError"

\* C10 (as claimed): any thread can enter a scope of any live token, and its
\* call changes no attribute of another thread.
C10_ThreadIsolation ==
  [][\A t \in Threads, k \in Tokens :
       Call(t, k)
       => /\ call'.err # "AttributeError"
          /\ \A u \in Threads \ {t} : data'[u] = data[u]]_vars

\* C11 (as claimed): between calls (no enter or exit sequence is running) the
\* signal_state of the context that is current is empty.
C11_CurrentParkedEmpty ==
  \A t \in Threads :
    (HasAttrs(data[t]) /\ GetContextErr(data[t]) = OK)
    => DOMAIN heap[GetContext(data[t]).signal_state] = {}

\* C12: weak lifetime. The keys of a thread's table are tokens that something
\* other than the table refers to: a client (live), the current identity, or
\* the generator of a scope that is still open; so once the scope of a token
\* has ended and no client holds it, it has no entry. A call with a token that
\* has no entry and reaches its body starts from a copy of the default
\* context: the new context holds what the default context holds.
C12_WeakLifetime ==
  /\ [](\A t \in Threads :
          HasAttrs(data[t])
          => DOMAIN data[t].context_dict \subseteq live \cup Held(data[t], stack[t]))
  /\ [][\A t \in Threads, k \in Tokens :
          (/\ Yields(t)
           /\ HasAttrs(data[t])
           /\ Cur(t)' = k
           /\ k \notin DOMAIN data[t].context_dict)
          => Held_World(data', heap', t, k) = Held_World(data', heap', t, None)]_vars

\* C12 witness: the scope of token a has ended, the last client reference to
\* a has gone and with it a's entry (the removal was the last thing observed);
\* the default context is still there with what it parked for s1.
C12_Witness ==
  /\ call = Result(ImportThread, "reclaim", OK, "a")
  /\ "a" \notin live
  /\ "a" \notin DOMAIN data[ImportThread].context_dict
  /\ stack[ImportThread] = <<>>
  /\ Cur(ImportThread) = None
  /\ Parks(ImportThread, None, "s1", 0)

\* C13: the sentinel is never a key. In every state, whatever calls with or
\* without an identity were made and ended, no thread's table has an entry
\* for None, and while the current identity is None _get_context answers with
\* the default context.
C13_SentinelNeverKey ==
  \A t \in Threads :
    HasAttrs(data[t])
    => /\ None \notin DOMAIN data[t].context_dict
       /\ Cur(t) = None
            => /\ GetContextErr(data[t]) = OK
               /\ GetContext(data[t]) = data[t].default_context

\* C13 witness: token a has an entry, its scope has ended (_set_context_id(None)
\* ran) and simulation_context() with the identity left out has reached its
\* body.
C13_Witness ==
  /\ call = Result(ImportThread, "simulation_context", OK, None)
  /\ Len(stack[ImportThread]) = 1
  /\ Top(ImportThread).id = None
  /\ Cur(ImportThread) = None
  /\ DOMAIN data[ImportThread].context_dict = {"a"}

\* C14 (as claimed): every call of simulation_context made while the current
\* identity is not None, with a token or with no identity at all, raises
\* ValueError and changes nothing.
C14_SingleNestingLevel ==
  [][\A t \in Threads, id \in Ids :
       (/\ HasAttrs(data[t])
        /\ Cur(t) # None
        /\ Call(t, id))
       => /\ call'.err = "ValueError"
          /\ UNCHANGED <<data, heap, sigval, stack, live>>]_vars

\* C15 (as claimed): whenever the current identity of a thread is not None the
\* thread's table has an entry for it.
C15_CurrentResolvable ==
  \A t \in Threads :
    (HasAttrs(data[t]) /\ Cur(t) # None)
    => Cur(t) \in DOMAIN data[t].context_dict

\* C16: create-once copy. An entry appears in a table only during a call of
\* simulation_context by that thread, and when the call is over the new
\* context holds, field by field, what the default context holds (the same
\* signal list, siglist, futureEvents, time, cosim, tracing, tf and
\* signal_state contents). A call that makes current a token which already
\* has an entry changes nothing in that entry, so what was done to the default
\* context since its creation does not show in it.
C16_CreateOnceCopy ==
  [][\A t \in Threads, k \in Tokens :
       (HasAttrs(data[t]) /\ k \in DOMAIN data'[t].context_dict)
       => /\ k \notin DOMAIN data[t].context_dict
               => /\ call' = Result(t, "simulation_context", call'.err, None)
                  /\ Held_World(data', heap', t, k)
                       = Held_World(data', heap', t, None)
          /\ (k \in DOMAIN data[t].context_dict /\ Cur(t) # k /\ Cur(t)' = k)
               => Held_World(data', heap', t, k) = Held_World(data, heap, t, k)]_vars

\* C16 witness: token a is current, and the time written in the default
\* context after a's context was created is not a's time.
C16_Witness ==
  /\ call = Result(ImportThread, "simulation_context", OK, None)
  /\ Cur(ImportThread) = "a"
  /\ "a" \in DOMAIN data[ImportThread].context_dict
  /\ data[ImportThread].context_dict["a"].time = 0
  /\ data[ImportThread].default_context.time = 1

\* A signal_state dict after each signal of the list sigs has stashed its
\* value sv[s] in it.
Stashed(ss, sigs, sv) ==
  [s \in (DOMAIN ss) \cup Range(sigs) |-> IF s \in Range(sigs) THEN sv[s] ELSE ss[s]]

\* The signal values after each signal of the list sigs has recalled its
\* value from the dict ss.
Recalled(ss, sigs, sv) ==
  [s \in Signals |-> IF s \in Range(sigs) /\ s \in DOMAIN ss THEN ss[s] ELSE sv[s]]

\* C17: switch ordering. On a call from the default context with token k that
\* reaches its body, the stash loop ran over the default context's signals
\* and wrote into the default context's signal_state, and the recall loop ran
\* over k's signals and read k's signal_state. When a scope ends with k
\* current and its exit sequence completes, the stash loop ran over k's
\* signals and wrote into k's signal_state, the default context's
\* signal_state was not written, and the recall loop ran over the default
\* context's signals and read the default context's signal_state.
C17_SwitchOrdering ==
  [][\A t \in Threads, k \in Tokens :
       (HasAttrs(data[t]) /\ k \in DOMAIN data'[t].context_dict)
       => LET D  == Held_World(data, heap, t, None)
              D2 == Held_World(data', heap', t, None)
              K2 == Held_World(data', heap', t, k)
          IN /\ (Yields(t) /\ Cur(t) = None /\ Cur(t)' = k)
                  => /\ D2.signal_state = Stashed(D.signal_state, D.signals, sigval)
                     /\ sigval' = Recalled(K2.signal_state, K2.signals, sigval)
                     /\ k \in DOMAIN data[t].context_dict
                          => K2 = Held_World(data, heap, t, k)
             /\ (/\ Ends(t)
                 /\ Cur(t) = k
                 /\ call'.err \in {OK, "BodyError"}
                 /\ k \in DOMAIN data[t].context_dict)
                  => LET K == Held_World(data, heap, t, k)
                     IN /\ K2.signal_state = Stashed(K.signal_state, K.signals, sigval)
                        /\ D2 = D
                        /\ sigval' = Recalled(D.signal_state, D.signals, sigval)]_vars

\* C17 witness: s2 was appended to _signals inside a scope of token a, which
\* has ended: a's context parked s1 and s2, the default context only s1.
C17_Witness ==
  /\ call = Result(ImportThread, "exit", OK, None)
  /\ Cur(ImportThread) = None
  /\ "a" \in DOMAIN data[ImportThread].context_dict
  /\ DOMAIN Held_World(data, heap, ImportThread, "a").signal_state = {"s1", "s2"}
  /\ DOMAIN Held_World(data, heap, ImportThread, None).signal_state = {"s1"}

\* C18: error propagation. When the body of a scope raises and the exit
\* sequence runs to its end, the caller observes the body's error: never a
\* normal return.
C18_ErrorPropagation ==
  [][\A t \in Threads :
       (/\ Ends(t)
        /\ call'.err \notin {"StashError", "RecallError", "KeyError",
                             "TypeError", "AttributeError"}
        /\ Exit(t, TRUE))
       => call'.err = "BodyError"]_vars

\* C18 witness: a scope of token a ended with the body's error, with the exit
\* sequence done: s1, written in the body, is parked in a's context.
C18_Witness ==
  /\ call = Result(ImportThread, "exit", "BodyError", None)
  /\ Cur(ImportThread) = None
  /\ stack[ImportThread] = <<>>
  /\ Parks(ImportThread, "a", "s1", 1)
  /\ Parks(ImportThread, None, "s1", 0)
  /\ sigval = [s \in Signals |-> 0]

====
